---- MODULE Spec2Model ----
(***************************************************************************)
(* FastSurferCNN (fastsurfer/networks.py): construction of the network     *)
(* from a mutable configuration mapping, the encoder/decoder wiring of     *)
(* features, forward / forward_label, and the Grad-CAM entry points that   *)
(* share the instance attribute `gradients`.                               *)
(*                                                                         *)
(* Tensors are modelled by their shape and provenance; the blocks of       *)
(* sub_module.py are modelled by their interface contract.                 *)
(***************************************************************************)
EXTENDS Integers, Sequences, FiniteSets, TLC

\* ------------------------------------------------------------------ bounds
MaxChannels == 2
MaxFilters == 3
MaxClasses == 2
MaxNets == 2
MaxBatch == 2
MaxSide == 4
MaxCalls == 2
MaxVal == 1

\* ------------------------------------------- the configuration of test()
DefaultChannels == 7
DefaultFilters == 64
DefaultClasses == 44
DefaultBatch == 1
DefaultSide == 256

ChannelCounts == 1..MaxChannels
FilterCounts == 2..MaxFilters
ClassCounts == 1..MaxClasses

\* ------------------------------------------------------- configuration
\* The keys of the configuration mapping that the wiring depends on.
Params == [num_channels : ChannelCounts \cup FilterCounts,
           num_filters : FilterCounts,
           num_classes : ClassCounts]

\* ------------------------------------------------- blocks (sub_module.py)
CompetitiveEncoderBlockInput(p) ==
    [kind |-> "encoder_input", in_channels |-> p.num_channels, filters |-> p.num_filters]

CompetitiveEncoderBlock(p) ==
    [kind |-> "encoder", in_channels |-> p.num_channels, filters |-> p.num_filters]

CompetitiveDenseBlock(p) ==
    [kind |-> "dense", in_channels |-> p.num_channels, filters |-> p.num_filters]

CompetitiveDecoderBlock(p) ==
    [kind |-> "decoder", in_channels |-> p.num_channels, filters |-> p.num_filters]

ClassifierBlock(p) ==
    [kind |-> "classifier", in_channels |-> p.num_channels, filters |-> p.num_classes]

\* ------------------------------------------------------------- __init__
\* line 47 left out: the encoder stages 2..4 and the bottleneck see the
\* caller's channel count
SetChannelsAfterEncode1_skip(p) == p

\* params["num_channels"] = params["num_filters"]   (line 47)
SetChannelsAfterEncode1(p) == [p EXCEPT !.num_channels = p.num_filters]

\* params["num_channels"] = params["num_filters"]   (lines 54 and 60)
SetChannels(p) == [p EXCEPT !.num_channels = p.num_filters]

\* FastSurferCNN.__init__(params): the blocks in construction order, each
\* built from the mapping as it stands at that line, and the mapping as the
\* constructor leaves it (the caller's object is mutated in place).
FastSurferCNN(params) ==
    LET p0 == params
        encode1 == CompetitiveEncoderBlockInput(p0)
        p1 == SetChannelsAfterEncode1(p0)
        encode2 == CompetitiveEncoderBlock(p1)
        encode3 == CompetitiveEncoderBlock(p1)
        encode4 == CompetitiveEncoderBlock(p1)
        bottleneck == CompetitiveDenseBlock(p1)
        p2 == SetChannels(p1)
        decode4 == CompetitiveDecoderBlock(p2)
        decode3 == CompetitiveDecoderBlock(p2)
        decode2 == CompetitiveDecoderBlock(p2)
        decode1 == CompetitiveDecoderBlock(p2)
        p3 == SetChannels(p2)
        classifier == ClassifierBlock(p3)
    IN  [net |-> [encode1 |-> encode1, encode2 |-> encode2, encode3 |-> encode3,
                  encode4 |-> encode4, bottleneck |-> bottleneck,
                  decode4 |-> decode4, decode3 |-> decode3, decode2 |-> decode2,
                  decode1 |-> decode1, classifier |-> classifier],
         seen |-> [encode1 |-> p0, encode2 |-> p1, encode3 |-> p1, encode4 |-> p1,
                   bottleneck |-> p1, decode4 |-> p2, decode3 |-> p2,
                   decode2 |-> p2, decode1 |-> p2, classifier |-> p3],
         params |-> p3]

BlockNames == {"encode1", "encode2", "encode3", "encode4", "bottleneck",
               "decode4", "decode3", "decode2", "decode1", "classifier"}

\* --------------------------------------------------------------- tensors
\* A tensor is its shape and where it was produced; ok = FALSE stands for
\* the exception the producing call raised.
Tensor(ok, shape, src) == [ok |-> ok, shape |-> shape, src |-> src]

InputTensor(shape) == Tensor(TRUE, shape, <<"input", "x">>)

\* ------------------------------------------ block forward (sub_module.py)
\* (tensor) -> (tensor, skip_tensor, index_tensor); pooling halves H and W.
EncoderForward(blk, name, x) ==
    LET ok == /\ x.ok
              /\ Len(x.shape) = 4
              /\ x.shape[2] = blk.in_channels
              /\ x.shape[3] \div 2 >= 1
              /\ x.shape[4] \div 2 >= 1
        full == IF ok THEN <<x.shape[1], blk.filters, x.shape[3], x.shape[4]>> ELSE <<>>
        half == IF ok THEN <<x.shape[1], blk.filters, x.shape[3] \div 2, x.shape[4] \div 2>>
                      ELSE <<>>
    IN  <<Tensor(ok, half, <<name, "out">>),
          Tensor(ok, full, <<name, "skip">>),
          Tensor(ok, half, <<name, "indices">>)>>

\* (tensor) -> tensor, no pooling.
DenseForward(blk, name, x) ==
    LET ok == x.ok /\ Len(x.shape) = 4 /\ x.shape[2] = blk.in_channels
    IN  <<Tensor(ok,
                 IF ok THEN <<x.shape[1], blk.filters, x.shape[3], x.shape[4]>> ELSE <<>>,
                 <<name, "out">>)>>

\* (tensor, skip_tensor, index_tensor) -> tensor; unpooling by the indices
\* doubles H and W, and the result is fused with the skip tensor by maxout,
\* which needs the two to have one shape.
DecoderForward(blk, name, x, skip, idx) ==
    LET ok == /\ x.ok /\ skip.ok /\ idx.ok
              /\ Len(x.shape) = 4
              /\ x.shape[2] = blk.in_channels
              /\ idx.shape = x.shape
              /\ skip.shape = <<x.shape[1], x.shape[2], 2 * x.shape[3], 2 * x.shape[4]>>
    IN  <<Tensor(ok,
                 IF ok THEN <<x.shape[1], blk.filters, 2 * x.shape[3], 2 * x.shape[4]>>
                       ELSE <<>>,
                 <<name, "out">>)>>

\* (tensor) -> tensor of per-class logits.
ClassifierForward(blk, x) ==
    LET ok == x.ok /\ Len(x.shape) = 4 /\ x.shape[2] = blk.in_channels
    IN  Tensor(ok,
               IF ok THEN <<x.shape[1], blk.filters, x.shape[3], x.shape[4]>> ELSE <<>>,
               <<"classifier", "out">>)

\* --------------------------------------------------------------- features
\* The statements of features in program order: the block called, the local
\* variables passed to it and the local variables its result is bound to.
Statement(block, args, binds) == [block |-> block, args |-> args, binds |-> binds]

\* decode3 is handed the skip tensor and the indices of encoder stage 2,
\* and decode2 those of encoder stage 3
FeatureStatements_swapped ==
    <<Statement("encode1", <<"x">>, <<"encoder_output1", "skip_encoder_1", "indices_1">>),
      Statement("encode2", <<"encoder_output1">>,
                <<"encoder_output2", "skip_encoder_2", "indices_2">>),
      Statement("encode3", <<"encoder_output2">>,
                <<"encoder_output3", "skip_encoder_3", "indices_3">>),
      Statement("encode4", <<"encoder_output3">>,
                <<"encoder_output4", "skip_encoder_4", "indices_4">>),
      Statement("bottleneck", <<"encoder_output4">>, <<"bottleneck">>),
      Statement("decode4", <<"bottleneck", "skip_encoder_4", "indices_4">>,
                <<"decoder_output4">>),
      Statement("decode3", <<"decoder_output4", "skip_encoder_2", "indices_2">>,
                <<"decoder_output3">>),
      Statement("decode2", <<"decoder_output3", "skip_encoder_3", "indices_3">>,
                <<"decoder_output2">>),
      Statement("decode1", <<"decoder_output2", "skip_encoder_1", "indices_1">>,
                <<"decoder_output1">>)>>

\* lines 75-97
FeatureStatements ==
    <<Statement("encode1", <<"x">>, <<"encoder_output1", "skip_encoder_1", "indices_1">>),
      Statement("encode2", <<"encoder_output1">>,
                <<"encoder_output2", "skip_encoder_2", "indices_2">>),
      Statement("encode3", <<"encoder_output2">>,
                <<"encoder_output3", "skip_encoder_3", "indices_3">>),
      Statement("encode4", <<"encoder_output3">>,
                <<"encoder_output4", "skip_encoder_4", "indices_4">>),
      Statement("bottleneck", <<"encoder_output4">>, <<"bottleneck">>),
      Statement("decode4", <<"bottleneck", "skip_encoder_4", "indices_4">>,
                <<"decoder_output4">>),
      Statement("decode3", <<"decoder_output4", "skip_encoder_3", "indices_3">>,
                <<"decoder_output3">>),
      Statement("decode2", <<"decoder_output3", "skip_encoder_2", "indices_2">>,
                <<"decoder_output2">>),
      Statement("decode1", <<"decoder_output2", "skip_encoder_1", "indices_1">>,
                <<"decoder_output1">>)>>

LocalNames == {"x"} \cup UNION {{st.binds[i] : i \in 1..Len(st.binds)} :
                                st \in {FeatureStatements[k] : k \in 1..Len(FeatureStatements)}}

\* A local variable no statement has bound yet.
Unbound == Tensor(FALSE, <<>>, <<"unbound", "unbound">>)

\* The forward of the block of statement st on its arguments' values.
CallBlock(net, st, a) ==
    CASE net[st.block].kind \in {"encoder_input", "encoder"} ->
            EncoderForward(net[st.block], st.block, a[1])
      [] net[st.block].kind = "dense" ->
            DenseForward(net[st.block], st.block, a[1])
      [] net[st.block].kind = "decoder" ->
            DecoderForward(net[st.block], st.block, a[1], a[2], a[3])

\* One statement: the frame (locals, the block calls made so far, whether a
\* call has raised) after it.
Execute(net, st, fr) ==
    LET a == [i \in 1..Len(st.args) |-> fr.locals[st.args[i]]]
        r == CallBlock(net, st, a)
        bound == [n \in LocalNames |->
                    IF \E i \in 1..Len(st.binds) : st.binds[i] = n
                    THEN r[CHOOSE i \in 1..Len(st.binds) : st.binds[i] = n]
                    ELSE fr.locals[n]]
    IN  [locals |-> IF r[1].ok THEN bound ELSE fr.locals,
         calls |-> Append(fr.calls, [block |-> st.block, ok |-> r[1].ok,
                                     args |-> [i \in 1..Len(st.args) |-> a[i].src],
                                     out |-> r[1]]),
         raised |-> ~r[1].ok]

\* The statements from the i-th on, stopping at the first call that raises.
RECURSIVE RunFrom(_, _, _, _)
RunFrom(net, stmts, i, fr) ==
    IF i > Len(stmts) \/ fr.raised THEN fr
    ELSE CHOOSE end \in {RunFrom(net, stmts, i + 1, next) :
                           next \in {Execute(net, stmts[i], fr)}} : TRUE

\* FastSurferCNN.features(x): the returned tensor (decoder_output1) and the
\* block calls made.
features(net, x) ==
    LET start == [locals |-> [n \in LocalNames |-> IF n = "x" THEN x ELSE Unbound],
                  calls |-> <<>>,
                  raised |-> FALSE]
        end == RunFrom(net, FeatureStatements, 1, start)
    IN  [out |-> end.locals["decoder_output1"], calls |-> end.calls]

\* ---------------------------------------------------------------- forward
\* the hook is registered whatever the flag says
RegistersHook_always(grad_cam, feats) == feats.ok

\* if grad_cam: x.register_hook(self.activation_hook)   (lines 109-110)
RegistersHook(grad_cam, feats) == grad_cam /\ feats.ok

\* Lines 108-113 on the feature tensor f.out that line 106 produced.
Classify(net, f, grad_cam, g) ==
    LET logits == ClassifierForward(net.classifier, f.out)
    IN  [ok |-> logits.ok,
         shape |-> logits.shape,
         src |-> logits.src,
         graph |-> g,
         hooked |-> RegistersHook(grad_cam, f.out),
         featshape |-> f.out.shape,
         calls |-> f.calls]

\* FastSurferCNN.forward(x, grad_cam): the logits, with the autograd graph g
\* they hang on and whether that graph carries the gradient hook.
forward(net, x, grad_cam, g) ==
    CHOOSE logits \in {Classify(net, f, grad_cam, g) : f \in {features(net, x)}} : TRUE

\* torch.argmax(t, dim=1) on a 4-d tensor: the class dimension goes.
ArgmaxDim1(shape) == <<shape[1], shape[3], shape[4]>>

\* FastSurferCNN.forward_label(x): forward with the flag at its default,
\* then the arg-max over the class dimension.
forward_label(net, x, g) ==
    LET logits == forward(net, x, FALSE, g)
    IN  [ok |-> logits.ok,
         shape |-> IF logits.ok THEN ArgmaxDim1(logits.shape) ELSE <<>>,
         hooked |-> logits.hooked,
         graph |-> g]

\* ------------------------------------------------------------------ state
VARIABLES
    params,      \* the caller's configuration mapping (one mutable object)
    passed,      \* that object has been handed to the constructor before
    nets,        \* the networks constructed so far, in order
    ctorLog,     \* per construction: what the caller supplied, what each block saw
    model,       \* the network instance the calls below are made on
    gradients,   \* the instance attribute self.gradients
    param_grad,  \* the parameters hold an accumulated .grad
    fw,          \* the sequential caller: its last call and what it returned
    th,          \* per thread: the Grad-CAM call in progress and its locals
    nCalls,      \* forward passes (autograd graphs) started so far
    lastBackward, \* the graph of the latest backward pass that reached a hook
    hm           \* the heat-map computation: its input map and its result

ctorVars == <<params, passed, nets, ctorLog>>
instVars == <<model, gradients, param_grad>>
vars == <<params, passed, nets, ctorLog, model, gradients, param_grad, fw, th, nCalls,
          lastBackward, hm>>

\* self.gradients before any assignment: __init__ never sets the attribute.
Absent == [set |-> FALSE]

NoNet == [none |-> TRUE]
NoCall == [op |-> "none"]
Threads == {"t1", "t2"}
NoHeat == [pc |-> "none"]

\* The parts of the state a specification does not use stay at these values.
CtorUnused == params = [none |-> TRUE] /\ passed = FALSE /\ nets = <<>> /\ ctorLog = <<>>
InstUnused == model = NoNet /\ gradients = Absent /\ param_grad = FALSE
FwUnused == fw = NoCall
ThUnused == th = [t \in Threads |-> NoCall] /\ nCalls = 0 /\ lastBackward = 0
HmUnused == hm = NoHeat

\* ------------------------------------------------- construction (callers)
\* A mapping as a caller writes it.
CallerParams == [num_channels : ChannelCounts,
                 num_filters : FilterCounts,
                 num_classes : ClassCounts]

InitCtor ==
    /\ params \in CallerParams
    /\ passed = FALSE
    /\ nets = <<>>
    /\ ctorLog = <<>>
    /\ InstUnused /\ FwUnused /\ ThUnused /\ HmUnused

\* The caller writes a new mapping.
NewParams ==
    /\ Len(nets) < MaxNets
    /\ \E p \in CallerParams : params' = p
    /\ passed' = FALSE
    /\ UNCHANGED <<nets, ctorLog>>
    /\ UNCHANGED <<model, gradients, param_grad, fw, th, nCalls, lastBackward, hm>>

\* model = FastSurferCNN(params): the constructor runs on the caller's
\* mapping object and leaves it as it mutated it.
Construct ==
    /\ Len(nets) < MaxNets
    /\ LET r == FastSurferCNN(params)
       IN  /\ nets' = Append(nets, r.net)
           /\ ctorLog' = Append(ctorLog, [supplied |-> params, seen |-> r.seen,
                                          same_mapping |-> passed])
           /\ params' = r.params
    /\ passed' = TRUE
    /\ UNCHANGED <<model, gradients, param_grad, fw, th, nCalls, lastBackward, hm>>

NextCtor == NewParams \/ Construct

SpecCtor == InitCtor /\ [][NextCtor]_vars

\* --------------------------------------------------------------- inputs
Sides == {8 * k : k \in 2..MaxSide}

\* Input shapes (B, C, H, W): square ones and ones of width 16, with sides
\* that four poolings divide and sides they do not.
InputShapes == {x \in {<<b, c, h, w>> : b \in {1, MaxBatch}, c \in ChannelCounts,
                                      h \in Sides, w \in Sides} :
                  x[4] \in {x[3], 16}}

DefaultParams == [num_channels |-> DefaultChannels,
                  num_filters |-> DefaultFilters,
                  num_classes |-> DefaultClasses]

\* x = torch.rand(1, 7, 256, 256)
DefaultInput == <<DefaultBatch, DefaultChannels, DefaultSide, DefaultSide>>

\* ------------------------------------------------- gradient capture
\* The gradient that reaches the pre-classifier feature tensor of graph g
\* in a backward pass seeded by `seed`.
Grad(g, shape, seed) == [set |-> TRUE, graph |-> g, shape |-> shape, seed |-> seed]

\* the hook drops the gradient it is handed
activation_hook_drop(old, grad) == old

\* the hook assigns only while the attribute is unassigned
activation_hook_keep_first(old, grad) == IF old = [set |-> FALSE] THEN grad ELSE old

\* FastSurferCNN.activation_hook(grad): self.gradients = grad
activation_hook(old, grad) == grad

\* A backward pass through `logits`: the hook fires when the graph of the
\* logits carries it, and only then; the result is the new self.gradients.
Backward(logits, seed, old) ==
    IF logits.hooked
    THEN activation_hook(old, Grad(logits.graph, logits.featshape, seed))
    ELSE old

\* ------------------------------------------- forward calls, one caller
FwdParams == [num_channels : ChannelCounts,
              num_filters : FilterCounts,
              num_classes : {MaxClasses}] \cup {DefaultParams}
FwdInputs == InputShapes \cup {DefaultInput}

InitFwd ==
    /\ CtorUnused
    /\ \E p \in FwdParams : model = [cfg |-> p, net |-> FastSurferCNN(p).net]
    /\ gradients = Absent
    /\ param_grad = FALSE
    /\ fw = NoCall
    /\ ThUnused /\ HmUnused

\* out = model.forward(x) or model.forward(x, grad_cam=flag)
CallForward ==
    /\ \E x \in FwdInputs, flag \in BOOLEAN :
         fw' = [op |-> "forward", x |-> x, flag |-> flag, bw |-> FALSE,
                res |-> forward(model.net, InputTensor(x), flag, 0)]
    /\ UNCHANGED <<params, passed, nets, ctorLog, model, gradients, param_grad,
                   th, nCalls, lastBackward, hm>>

\* labels = model.forward_label(x)
CallForwardLabel ==
    /\ \E x \in FwdInputs :
         fw' = [op |-> "forward_label", x |-> x, flag |-> FALSE, bw |-> FALSE,
                res |-> forward_label(model.net, InputTensor(x), 0)]
    /\ UNCHANGED <<params, passed, nets, ctorLog, model, gradients, param_grad,
                   th, nCalls, lastBackward, hm>>

\* The caller runs a backward pass through the logits it holds.
CallerBackward ==
    /\ fw.op = "forward"
    /\ fw.res.ok
    /\ ~fw.bw
    /\ gradients' = Backward(fw.res, "caller", gradients)
    /\ param_grad' = TRUE
    /\ lastBackward' = IF fw.res.hooked THEN fw.res.graph ELSE lastBackward
    /\ fw' = [fw EXCEPT !.bw = TRUE]
    /\ UNCHANGED <<params, passed, nets, ctorLog, model, th, nCalls, hm>>

NextFwd == CallForward \/ CallForwardLabel \/ CallerBackward

SpecFwd == InitFwd /\ [][NextFwd]_vars

\* ------------------------------------------------------ tensor shapes
\* t.squeeze(): the dimensions of size 1 go.
Squeeze(shape) == SelectSeq(shape, LAMBDA d : d # 1)

\* t.mean(dim=(2, 3)) on a 4-d tensor.
MeanDims23(shape) == <<shape[1], shape[2]>>

\* torch.mean(t, dim=1) on a 4-d tensor.
MeanDim1(shape) == <<shape[1], shape[3], shape[4]>>

\* An in-place `dst *= src` is allowed: src broadcasts to the shape of dst.
BroadcastsInto(src, dst) ==
    /\ Len(src) <= Len(dst)
    /\ \A i \in 1..Len(src) :
          src[i] = 1 \/ src[i] = dst[Len(dst) - Len(src) + i]

\* The axes of the logits, by name.
LogitAxes == <<"B", "C", "H", "W">>

\* Basic indexing: an integer index removes its axis, a slice keeps it.
\* `index` holds "int" or ":" per leading axis; the axes it does not reach
\* are kept.
IndexAxes(axes, index) ==
    SelectSeq([i \in 1..Len(axes) |->
                  IF i <= Len(index) /\ index[i] = "int" THEN "-" ELSE axes[i]],
              LAMBDA a : a # "-")

\* t.sum(dim=d), d counted from 0: the axis at position d goes.
SumDim(axes, d) == [i \in 1..(Len(axes) - 1) |-> IF i <= d THEN axes[i] ELSE axes[i + 1]]

AxisSize(shape, a) == shape[CHOOSE i \in 1..4 : LogitAxes[i] = a]

SizesOf(shape, axes) == [i \in 1..Len(axes) |-> AxisSize(shape, axes[i])]

Range(f) == {f[i] : i \in DOMAIN f}

\* ------------------------------------------------------- backward seeds
\* distribution[0, seg_class, :, :].sum().backward()           (line 168)
\* The scalar sum over H and W of the target-class logits of example 0,
\* with the implicit gradient 1.
grad_cam_seed(dshape, seg_class) ==
    LET sel == IndexAxes(LogitAxes, <<"int", "int", ":", ":">>)
    IN  [ok |-> seg_class < dshape[2],
         examples |-> {0},
         class |-> seg_class,
         summed |-> Range(sel),
         output |-> <<>>,
         scale |-> 1]

\* as line 133, with dim counted on the logits instead of on their
\* class-indexed slice: the class axis is summed
grad_cam_batch_seed_over_channels(dshape, seg_class) ==
    LET sel == LogitAxes
        out == SumDim(sel, 1)
    IN  [ok |-> seg_class < dshape[2],
         examples |-> 0..(dshape[1] - 1),
         class |-> seg_class,
         summed |-> Range(sel) \ Range(out),
         output |-> SizesOf(dshape, out),
         scale |-> AxisSize(dshape, "C")]

\* distribution[:, seg_class].sum(dim=1).backward(
\*     torch.ones_like(distribution[:, seg_class]).sum(dim=1))   (line 133)
\* The class-indexed slice has the axes (B, H, W); dim 1 of it is summed,
\* in the output and in the gradient handed to backward alike.
grad_cam_batch_seed(dshape, seg_class) ==
    LET sel == IndexAxes(LogitAxes, <<":", "int">>)
        out == SumDim(sel, 1)
        ones == SumDim(sel, 1)
    IN  [ok |-> seg_class < dshape[2] /\ out = ones,
         examples |-> 0..(dshape[1] - 1),
         class |-> seg_class,
         summed |-> Range(sel) \ Range(out),
         output |-> SizesOf(dshape, out),
         scale |-> AxisSize(dshape, CHOOSE a \in Range(sel) \ Range(ones) : TRUE)]

\* --------------------------------------------------- accessors
AttributeError == [ok |-> FALSE, error |-> "AttributeError"]

\* the accessor hands out None when the attribute was never assigned
get_activation_gradient_none(buffer) ==
    [ok |-> TRUE, value |-> buffer]

\* FastSurferCNN.get_activation_gradient(): return self.gradients; the
\* attribute lookup raises when no hook has assigned it yet.
get_activation_gradient(buffer) ==
    IF buffer = Absent THEN AttributeError ELSE [ok |-> TRUE, value |-> buffer]

\* FastSurferCNN.get_activation(x): features run again on x.
get_activation(net, x) == features(net, x).out

\* ------------------------------------------------ weights to heat map
\* The steps after the gradient is read, on shapes: the channel weights,
\* the recomputed activations, the weighting loop, the channel mean with
\* the rectifier, the division by the maximum and the arg-max labels.
\* `steps` lists the statements executed, up to the one that raised.
HeatmapSteps(net, x, distribution, grads_val) ==
    LET weights == Squeeze(MeanDims23(grads_val.shape))
        activations == get_activation(net, x)
        slice == <<activations.shape[1], activations.shape[3], activations.shape[4]>>
        loop_ok == /\ Len(weights) > 0
                   /\ weights[1] <= activations.shape[2]
                   /\ BroadcastsInto(Tail(weights), slice)
        done == <<"mean_dim_2_3_squeeze", "get_activation_detach", "weighting_loop">>
    IN  IF ~activations.ok
        THEN [ok |-> FALSE, steps |-> SubSeq(done, 1, 2), weights |-> weights]
        ELSE IF ~loop_ok
        THEN [ok |-> FALSE, steps |-> done, weights |-> weights]
        ELSE [ok |-> TRUE,
              steps |-> done \o <<"mean_dim_1_squeeze", "relu", "divide_by_max", "argmax_dim_1">>,
              weights |-> weights,
              heatmap |-> Squeeze(MeanDim1(activations.shape)),
              labels |-> ArgmaxDim1(distribution.shape)]

\* lines 174-188
grad_cam_tail(net, x, distribution, grads_val) ==
    HeatmapSteps(net, x, distribution, grads_val)

\* lines 139-153
grad_cam_batch_tail(net, x, distribution, grads_val) ==
    HeatmapSteps(net, x, distribution, grads_val)

\* ------------------------------------------------- Grad-CAM calls
CamOps == {"grad_cam", "grad_cam_batch"}

\* The instance the Grad-CAM calls are made on: the configuration of
\* test(), and that configuration with as many filters as the input is wide.
CamParams == {DefaultParams, [DefaultParams EXCEPT !.num_filters = 16]}

CamInputs == {<<b, DefaultChannels, 16, 16>> : b \in 1..MaxBatch}

CamClasses == {0, DefaultClasses - 1}

InProgress(c) == c.op \in CamOps /\ c.pc # "done"

InitCam ==
    /\ CtorUnused
    /\ \E p \in CamParams : model = [cfg |-> p, net |-> FastSurferCNN(p).net]
    /\ gradients = Absent
    /\ param_grad = FALSE
    /\ FwUnused
    /\ th = [t \in Threads |-> NoCall]
    /\ nCalls = 0
    /\ lastBackward = 0
    /\ HmUnused

\* Thread t enters grad_cam or grad_cam_batch and runs its first line,
\* distribution = self.forward(x, grad_cam=True).
Enter(t) ==
    /\ th[t].op = "none"
    /\ nCalls < MaxCalls
    /\ nCalls' = nCalls + 1
    /\ \E x \in CamInputs :
       \E logits \in {forward(model.net, InputTensor(x), TRUE, nCalls + 1)} :
       \E op \in CamOps, seg_class \in CamClasses :
         LET distribution == [ok |-> logits.ok, shape |-> logits.shape,
                              graph |-> logits.graph, hooked |-> logits.hooked,
                              featshape |-> logits.featshape]
             overlap == \E u \in Threads \ {t} : InProgress(th[u])
         IN  th' = [u \in Threads |->
                      IF u = t
                      THEN [op |-> op, x |-> x, seg_class |-> seg_class,
                            call |-> nCalls + 1,
                            pc |-> IF logits.ok THEN "zero_grad" ELSE "done",
                            distribution |-> distribution,
                            seed |-> [ok |-> FALSE],
                            grads_val |-> Absent,
                            steps |-> <<"forward_hooked">>,
                            ret |-> [ok |-> logits.ok],
                            overlapped |-> overlap]
                      ELSE IF InProgress(th[u])
                      THEN [th[u] EXCEPT !.overlapped = TRUE]
                      ELSE th[u]]
    /\ UNCHANGED <<params, passed, nets, ctorLog, model, gradients, param_grad, fw,
                   lastBackward, hm>>

\* self.zero_grad()
ZeroGrad(t) ==
    /\ th[t].op \in CamOps /\ th[t].pc = "zero_grad"
    /\ param_grad' = FALSE
    /\ th' = [th EXCEPT ![t].pc = "backward",
                        ![t].steps = Append(@, "zero_grad")]
    /\ UNCHANGED <<params, passed, nets, ctorLog, model, gradients, fw, nCalls,
                   lastBackward, hm>>

\* The seed of the call's backward pass.
SeedOf(op, dshape, seg_class) ==
    IF op = "grad_cam" THEN grad_cam_seed(dshape, seg_class)
                       ELSE grad_cam_batch_seed(dshape, seg_class)

\* The backward pass of line 133 / 168: the hook on the call's own graph
\* assigns self.gradients.
BackwardPass(t) ==
    /\ th[t].op \in CamOps /\ th[t].pc = "backward"
    /\ LET c == th[t]
           seed == SeedOf(c.op, c.distribution.shape, c.seg_class)
       IN  IF seed.ok
           THEN /\ gradients' = Backward(c.distribution, seed, gradients)
                /\ lastBackward' = IF c.distribution.hooked THEN c.call ELSE lastBackward
                /\ param_grad' = TRUE
                /\ th' = [th EXCEPT ![t].pc = "read", ![t].seed = seed,
                                    ![t].steps = Append(@, "backward")]
           ELSE /\ th' = [th EXCEPT ![t].pc = "done", ![t].ret = [ok |-> FALSE]]
                /\ UNCHANGED <<gradients, lastBackward, param_grad>>
    /\ UNCHANGED <<params, passed, nets, ctorLog, model, fw, nCalls, hm>>

\* grads_val = self.get_activation_gradient()
ReadGradient(t) ==
    /\ th[t].op \in CamOps /\ th[t].pc = "read"
    /\ LET r == get_activation_gradient(gradients)
       IN  th' = [th EXCEPT ![t].pc = IF r.ok /\ r.value # Absent THEN "heatmap" ELSE "done",
                            ![t].grads_val = IF r.ok THEN r.value ELSE Absent,
                            ![t].ret = [ok |-> r.ok /\ r.value # Absent],
                            ![t].steps = Append(@, "get_activation_gradient")]
    /\ UNCHANGED <<params, passed, nets, ctorLog, model, gradients, param_grad, fw,
                   nCalls, lastBackward, hm>>

\* From the channel weights to the return of (heatmap, labels).
Heatmap(t) ==
    /\ th[t].op \in CamOps /\ th[t].pc = "heatmap"
    /\ LET c == th[t]
           r == IF c.op = "grad_cam"
                THEN grad_cam_tail(model.net, InputTensor(c.x), c.distribution, c.grads_val)
                ELSE grad_cam_batch_tail(model.net, InputTensor(c.x), c.distribution,
                                         c.grads_val)
       IN  th' = [th EXCEPT ![t].pc = "done",
                            ![t].ret = r,
                            ![t].steps = @ \o r.steps]
    /\ UNCHANGED <<params, passed, nets, ctorLog, model, gradients, param_grad, fw,
                   nCalls, lastBackward, hm>>

\* A caller calls get_activation_gradient() itself.
GetGradient(t) ==
    /\ th[t].op = "none"
    /\ th' = [th EXCEPT ![t] = [op |-> "get_activation_gradient", pc |-> "done",
                                ret |-> get_activation_gradient(gradients),
                                after |-> lastBackward]]
    /\ UNCHANGED <<params, passed, nets, ctorLog, model, gradients, param_grad, fw,
                   nCalls, lastBackward, hm>>

\* The caller takes the result (or the exception) and lets go of it.
Return(t) ==
    /\ th[t].op # "none" /\ th[t].pc = "done"
    /\ th' = [th EXCEPT ![t] = NoCall]
    /\ UNCHANGED <<params, passed, nets, ctorLog, model, gradients, param_grad, fw,
                   nCalls, lastBackward, hm>>

\* Calls from several threads, interleaved between the steps above.
Next ==
    \E t \in Threads :
        \/ Enter(t)
        \/ ZeroGrad(t)
        \/ BackwardPass(t)
        \/ ReadGradient(t)
        \/ Heatmap(t)
        \/ GetGradient(t)
        \/ Return(t)

Spec == InitCam /\ [][Next]_vars

\* No other thread is inside a Grad-CAM call.
Alone(t) == \A u \in Threads \ {t} : ~InProgress(th[u])

EnterAlone(t) == Alone(t) /\ Enter(t)

GetGradientAlone(t) == Alone(t) /\ GetGradient(t)

\* The same calls, at most one in progress per instance.
NextSeq ==
    \E t \in Threads :
        \/ EnterAlone(t)
        \/ ZeroGrad(t)
        \/ BackwardPass(t)
        \/ ReadGradient(t)
        \/ Heatmap(t)
        \/ GetGradientAlone(t)
        \/ Return(t)

SpecSeq == InitCam /\ [][NextSeq]_vars

\* ------------------------------------------------ heat-map arithmetic
\* Tensor entries are rationals num/den with den > 0, or the IEEE values a
\* division by zero gives.
Rat(n, d) == [num |-> n, den |-> d]

NaN == [nonfinite |-> "nan"]
PosInf == [nonfinite |-> "inf"]
NegInf == [nonfinite |-> "-inf"]

IsRat(v) == DOMAIN v = {"num", "den"}

\* a / b in floating point: no exception, x/0 is +-inf, 0/0 is nan.
Divide(a, b) ==
    IF b.num = 0
    THEN (IF a.num = 0 THEN NaN ELSE IF a.num > 0 THEN PosInf ELSE NegInf)
    ELSE IF b.num > 0 THEN Rat(a.num * b.den, a.den * b.num)
    ELSE Rat(-(a.num * b.den), a.den * (-b.num))

\* a <= b for rationals.
Leq(a, b) == a.num * b.den <= b.num * a.den

HeatChannels == {"c1", "c2"}
HeatPixels == {"p1", "p2"}
Vals == (-MaxVal)..MaxVal

RECURSIVE SumOver(_, _)
SumOver(f, S) ==
    IF S = {} THEN 0
    ELSE LET c == CHOOSE c \in S : TRUE IN f[c] + SumOver(f, S \ {c})

\* for i in range(weights.shape[0]): activations[:, i, :, :] *= weights[i]
WeightChannels(activations, weights) ==
    [c \in HeatChannels |-> [q \in HeatPixels |-> activations[c][q] * weights[c]]]

\* torch.mean(activations, dim=1)
ChannelMean(weighted) ==
    [q \in HeatPixels |->
        Rat(SumOver([c \in HeatChannels |-> weighted[c][q]], HeatChannels),
            Cardinality(HeatChannels))]

\* the rectifier is left out
relu_identity(v) == v

\* F.relu(v)
relu(v) == IF v.num < 0 THEN Rat(0, v.den) ELSE v

\* torch.max(heatmap)
MaxOf(heatmap) == CHOOSE m \in Range(heatmap) : \A v \in Range(heatmap) : Leq(v, m)

\* heatmap /= torch.max(heatmap)
Normalise(heatmap) == [q \in HeatPixels |-> Divide(heatmap[q], MaxOf(heatmap))]

\* The activations A_k of the last layer and the channel weights alpha_k.
InitHeat ==
    /\ CtorUnused /\ InstUnused /\ FwUnused /\ ThUnused
    /\ \E A \in [HeatChannels -> [HeatPixels -> Vals]], w \in [HeatChannels -> Vals] :
         hm = [pc |-> "weighting", activations |-> A, weights |-> w]

\* lines 180-181
HeatWeighting ==
    /\ hm.pc = "weighting"
    /\ hm' = [pc |-> "mean_relu", activations |-> hm.activations, weights |-> hm.weights,
              weighted |-> WeightChannels(hm.activations, hm.weights)]
    /\ UNCHANGED <<params, passed, nets, ctorLog, model, gradients, param_grad, fw, th,
                   nCalls, lastBackward>>

\* line 184
HeatMeanRelu ==
    /\ hm.pc = "mean_relu"
    /\ LET cam == ChannelMean(hm.weighted)
       IN  hm' = [pc |-> "normalise", activations |-> hm.activations,
                  weights |-> hm.weights, cam |-> cam,
                  rectified |-> [q \in HeatPixels |-> relu(cam[q])]]
    /\ UNCHANGED <<params, passed, nets, ctorLog, model, gradients, param_grad, fw, th,
                   nCalls, lastBackward>>

\* lines 187-188
HeatNormalise ==
    /\ hm.pc = "normalise"
    /\ hm' = [pc |-> "done", activations |-> hm.activations, weights |-> hm.weights,
              cam |-> hm.cam, rectified |-> hm.rectified,
              heatmap |-> Normalise(hm.rectified)]
    /\ UNCHANGED <<params, passed, nets, ctorLog, model, gradients, param_grad, fw, th,
                   nCalls, lastBackward>>

NextHeat == HeatWeighting \/ HeatMeanRelu \/ HeatNormalise

SpecHeat == InitHeat /\ [][NextHeat]_vars

\* ================================================================ claims

\* The tensor shapes along the pipeline of `net` on input shape x: the
\* output of every block call made, then the logits.
PipelineShapes(net, x) ==
    LET r == forward(net, InputTensor(x), FALSE, 0)
    IN  [ok |-> r.ok,
         blocks |-> [i \in 1..Len(r.calls) |-> r.calls[i].out.shape],
         logits |-> r.shape]

\* C3 (as claimed): two networks constructed from the same configuration --
\* the caller wrote the same values, or handed the same mapping object to
\* the constructor twice in succession -- have the same block dimensions
\* and the same tensor shapes at every stage, the input channel count of
\* encoder stage 1 included.
C3_SameConfigurationSameShapes ==
    \A i \in 1..Len(nets) : \A j \in 1..Len(nets) :
        (i < j /\ (ctorLog[i].supplied = ctorLog[j].supplied
                   \/ (j = i + 1 /\ ctorLog[j].same_mapping)))
        => /\ nets[i].encode1.in_channels = nets[j].encode1.in_channels
           /\ \A x \in InputShapes : PipelineShapes(nets[i], x) = PipelineShapes(nets[j], x)

\* C4: in every construction, the bottleneck, the four decoder blocks, the
\* classifier and encoder stages 2..4 are built from a mapping whose
\* num_channels equals its num_filters, and encoder stage 1 from the
\* mapping as the caller supplied it.
C4_ChannelsSeenAtConstruction ==
    \A i \in 1..Len(nets) :
        /\ \A b \in BlockNames \ {"encode1"} :
              /\ ctorLog[i].seen[b].num_channels = ctorLog[i].seen[b].num_filters
              /\ ctorLog[i].seen[b].num_filters = ctorLog[i].supplied.num_filters
        /\ ctorLog[i].seen.encode1 = ctorLog[i].supplied

\* C4 witness: a network has been built from a mapping whose num_channels
\* differed from its num_filters.
C4_Witness ==
    \E i \in 1..Len(nets) :
        ctorLog[i].supplied.num_channels # ctorLog[i].supplied.num_filters

StageOrder == <<"encode1", "encode2", "encode3", "encode4", "bottleneck",
                "decode4", "decode3", "decode2", "decode1">>

EncoderName(k) == <<"encode1", "encode2", "encode3", "encode4">>[k]

\* Decoder stage k is the (10-k)-th block call of features.
DecoderAt(k) == 10 - k

\* C1: in the features call of the last forward, the blocks ran in the
\* order encode1..4, bottleneck, decode4..1; each decoder stage k that ran
\* took the previous call's output as its first argument and the skip and
\* index tensors of encoder stage k as its second and third, and no other
\* decoder stage took those.
C1_SkipPairing ==
    fw.op = "forward" =>
        LET calls == fw.res.calls
        IN  /\ Len(calls) <= 9
            /\ \A i \in 1..Len(calls) : calls[i].block = StageOrder[i]
            /\ \A k \in 1..4 : DecoderAt(k) <= Len(calls) =>
                  /\ calls[DecoderAt(k)].args[1] = calls[DecoderAt(k) - 1].out.src
                  /\ calls[DecoderAt(k)].args[2] = <<EncoderName(k), "skip">>
                  /\ calls[DecoderAt(k)].args[3] = <<EncoderName(k), "indices">>
                  /\ \A j \in 1..4 : (j # k /\ DecoderAt(j) <= Len(calls)) =>
                        /\ calls[DecoderAt(j)].args[2] # <<EncoderName(k), "skip">>
                        /\ calls[DecoderAt(j)].args[3] # <<EncoderName(k), "indices">>

\* C1 witness: a forward whose features call ran all nine blocks.
C1_Witness ==
    fw.op = "forward" /\ fw.res.ok /\ Len(fw.res.calls) = 9

\* The input has the channel count the network was configured with and a
\* height and width that 2^4 divides.
ValidInput(x) == x[2] = model.cfg.num_channels /\ x[3] % 16 = 0 /\ x[4] % 16 = 0

\* C2: on a valid input (B, C, H, W), forward returns logits of shape
\* (B, num_classes, H, W) and features a tensor of shape
\* (B, num_filters, H, W); the configuration of test() on (1, 7, 256, 256)
\* gives (1, 44, 256, 256).
C2_OutputShape ==
    (fw.op = "forward" /\ ValidInput(fw.x)) =>
        /\ fw.res.ok
        /\ fw.res.shape = <<fw.x[1], model.cfg.num_classes, fw.x[3], fw.x[4]>>
        /\ fw.res.featshape = <<fw.x[1], model.cfg.num_filters, fw.x[3], fw.x[4]>>
        /\ (model.cfg = DefaultParams /\ fw.x = DefaultInput)
              => fw.res.shape = <<1, 44, 256, 256>>

\* C2 witness: forward has returned on a valid non-square batch input to a
\* network whose channel, filter and class counts all differ.
C2_Witness ==
    /\ fw.op = "forward" /\ ValidInput(fw.x) /\ fw.res.ok
    /\ fw.x[1] > 1 /\ fw.x[3] # fw.x[4]
    /\ model.cfg.num_channels # model.cfg.num_filters
    /\ model.cfg.num_filters # model.cfg.num_classes

\* C8: a step that is a forward(x) or forward_label(x) call, or a backward
\* pass through the logits of a forward(x) call, leaves self.gradients as
\* it was and returns a graph without the hook; forward(x, grad_cam=True)
\* that gets through features returns a graph with the hook; and the
\* logits are those the other value of the flag gives.
C8_HookOnlyWhenFlagged ==
    [][/\ (fw' # fw /\ fw'.op \in {"forward", "forward_label"} /\ ~fw'.flag)
            => (gradients' = gradients /\ ~fw'.res.hooked)
       /\ (fw'.op = "forward" /\ fw'.flag /\ fw'.res.ok) => fw'.res.hooked
       /\ fw'.op = "forward" =>
            LET other == forward(model.net, InputTensor(fw'.x), ~fw'.flag, 0)
            IN  /\ other.ok = fw'.res.ok
                /\ other.shape = fw'.res.shape
                /\ other.src = fw'.res.src]_vars

\* C8 witness: while self.gradients holds a gradient captured earlier, a
\* backward pass has gone through the logits of a forward(x) call.
C8_Witness ==
    /\ gradients # Absent
    /\ fw.op = "forward" /\ ~fw.flag /\ fw.res.ok /\ fw.bw

\* A heat-map value lies in [0, 1].
InUnit(v) == IsRat(v) /\ 0 <= v.num /\ v.num <= v.den

\* C5: when the rectified map has a positive entry, every value of the
\* returned heat map lies in [0, 1] and its maximum is exactly 1; when
\* every entry of the channel-reduced map is non-positive, the rectified
\* map is all zero and every value of the returned heat map is nan (a
\* division of zero by the zero maximum, which raises nothing).
C5_HeatmapRange ==
    hm.pc = "done" =>
        /\ (\E q \in HeatPixels : hm.rectified[q].num > 0) =>
              /\ \A q \in HeatPixels : InUnit(hm.heatmap[q])
              /\ \E q \in HeatPixels : hm.heatmap[q].num = hm.heatmap[q].den
        /\ (\A q \in HeatPixels : hm.cam[q].num <= 0) =>
              /\ \A q \in HeatPixels : hm.rectified[q].num = 0
              /\ \A q \in HeatPixels : hm.heatmap[q] = NaN

\* C5 witness: a heat map was returned for a channel-reduced map with one
\* entry negative before the rectifier and one positive.
C5_Witness ==
    /\ hm.pc = "done"
    /\ \E q \in HeatPixels : hm.cam[q].num < 0
    /\ \E q \in HeatPixels : hm.cam[q].num > 0

\* The degenerate case of C5: every entry non-positive, one of them
\* negative, and the heat map returned is all nan.
C5_DegenerateReached ==
    /\ hm.pc = "done"
    /\ \E q \in HeatPixels : hm.cam[q].num < 0
    /\ \A q \in HeatPixels : hm.heatmap[q] = NaN

\* C6: a Grad-CAM call computes its channel weights from a gradient that
\* another call's backward pass wrote only if another call on the instance
\* was in progress during it.
C6_ForeignGradientOnlyWhenOverlapped ==
    \A t \in Threads :
        (th[t].op \in CamOps /\ th[t].grads_val # Absent
            /\ th[t].grads_val.graph # th[t].call)
        => th[t].overlapped

\* C6 witness: a call has returned a heat map whose weights came from the
\* gradient of the other, overlapping call.
C6_Witness ==
    \E t \in Threads :
        /\ th[t].op \in CamOps /\ th[t].pc = "done" /\ th[t].ret.ok
        /\ th[t].grads_val # Absent
        /\ th[t].grads_val.graph # th[t].call
        /\ th[t].overlapped

\* C7 (as claimed): get_activation_gradient never raises.
C7_NeverRaises ==
    \A t \in Threads : th[t].op = "get_activation_gradient" => th[t].ret.ok

\* C7 (amended): self.gradients is unassigned exactly while no hooked
\* backward pass has run, and holds the gradient of the latest one after;
\* get_activation_gradient raises AttributeError in the first case and
\* returns the last captured gradient, however old, in the second.
C7_LastCapturedOrAttributeError ==
    /\ (gradients = Absent) <=> (lastBackward = 0)
    /\ gradients # Absent => gradients.graph = lastBackward
    /\ \A t \in Threads : th[t].op = "get_activation_gradient" =>
          IF th[t].after = 0
          THEN th[t].ret = AttributeError
          ELSE th[t].ret.ok /\ th[t].ret.value # Absent
               /\ th[t].ret.value.graph = th[t].after

\* C7 witness: the accessor, called with no Grad-CAM call in progress,
\* returned the gradient an earlier call left behind.
C7_Witness ==
    \E t \in Threads :
        /\ th[t].op = "get_activation_gradient" /\ th[t].ret.ok
        /\ th[t].after > 0
        /\ \A u \in Threads : ~InProgress(th[u])

StepOrder == <<"forward_hooked", "zero_grad", "backward", "get_activation_gradient">>

\* C9: with one call at a time, every call's steps come in the order
\* hooked forward, zero_grad, backward, read; the gradient it reads is the
\* one its own backward pass wrote; from a call's backward pass until the
\* next call's, self.gradients is that call's gradient, so that between
\* calls it is the gradient of the most recent one.
C9_SequentialMostRecent ==
    /\ \A t \in Threads : th[t].op \in CamOps =>
          /\ ~th[t].overlapped
          /\ \A i \in 1..Len(th[t].steps) : i <= 4 => th[t].steps[i] = StepOrder[i]
          /\ (th[t].pc = "zero_grad") <=> (Len(th[t].steps) = 1)
          /\ (th[t].pc = "backward") <=> (Len(th[t].steps) = 2)
          /\ (th[t].pc = "read") <=> (Len(th[t].steps) = 3)
          /\ th[t].pc \in {"heatmap", "done"} =>
                /\ Len(th[t].steps) >= 4
                /\ th[t].grads_val = Grad(th[t].call, th[t].distribution.featshape,
                                          th[t].seed)
          /\ (th[t].pc \in {"read", "heatmap"}) => gradients = Grad(th[t].call,
                                          th[t].distribution.featshape, th[t].seed)
    /\ (nCalls > 0 /\ \A t \in Threads : ~InProgress(th[t])) =>
          (gradients # Absent /\ gradients.graph = nCalls)

\* C9 witness: a second call has returned, having read its own gradient,
\* which replaced the first call's in self.gradients.
C9_Witness ==
    \E t \in Threads :
        /\ th[t].op \in CamOps /\ th[t].pc = "done" /\ th[t].ret.ok
        /\ th[t].call = 2
        /\ gradients.graph = 2

\* C10 (as claimed): the seed of grad_cam_batch sums the target-class
\* logits over the channel dimension.
C10_BatchSeedSumsOverChannels ==
    \A t \in Threads :
        (th[t].op = "grad_cam_batch" /\ th[t].seed.ok) => th[t].seed.summed = {"C"}

\* C10 (amended): grad_cam and grad_cam_batch, run one after the other on
\* the same instance, input and class, execute the same steps with the
\* same outcome, weight shape, heat-map shape and label shape, and differ
\* in the seed alone: grad_cam sums the target-class logits of example 0
\* over H and W into a scalar; grad_cam_batch sums those of every example
\* over H only, leaving (B, W), with a backward gradient of H per entry.
C10_SameStepsDifferentSeed ==
    \A t \in Threads : \A u \in Threads :
        (/\ th[t].op = "grad_cam" /\ th[u].op = "grad_cam_batch"
         /\ th[t].pc = "done" /\ th[u].pc = "done"
         /\ th[t].x = th[u].x /\ th[t].seg_class = th[u].seg_class)
        => /\ th[t].steps = th[u].steps
           /\ th[t].ret = th[u].ret
           /\ th[t].seed = [ok |-> TRUE, examples |-> {0}, class |-> th[t].seg_class,
                            summed |-> {"H", "W"}, output |-> <<>>, scale |-> 1]
           /\ th[u].seed = [ok |-> TRUE, examples |-> 0..(th[u].x[1] - 1),
                            class |-> th[u].seg_class, summed |-> {"H"},
                            output |-> <<th[u].x[1], th[u].x[4]>>,
                            scale |-> th[u].x[3]]

\* C10 witness: both variants have returned a heat map for the same
\* single-example input and class.
C10_Witness ==
    \E t \in Threads : \E u \in Threads :
        /\ th[t].op = "grad_cam" /\ th[u].op = "grad_cam_batch"
        /\ th[t].pc = "done" /\ th[u].pc = "done"
        /\ th[t].x = th[u].x /\ th[t].seg_class = th[u].seg_class
        /\ th[t].ret.ok /\ th[u].ret.ok
====
